---- MODULE Spec2Model ----
(***************************************************************************)
(* A model of mutagen/_tags.py: the PaddingInfo value object with its      *)
(* default padding heuristic and callback protocol, and the abstract       *)
(* Metadata base class.                                                    *)
(*                                                                         *)
(* Python integers are unbounded, so no width is modelled.  Python's //    *)
(* is floor division, which is what \div is for a positive divisor.        *)
(***************************************************************************)
EXTENDS Integers, Sequences, FiniteSets, TLC

VARIABLES
    info,         \* the PaddingInfo the caller holds, or None
    call,         \* the last PaddingInfo operation and its arguments
    ret,          \* what that operation returned, or None
    exc,          \* what that operation raised, or NoError
    recommended,  \* the padding and content size a re-save was laid out with, or None
    meta,         \* the Metadata instance the caller holds, or None
    mcall,        \* the last Metadata operation and its arguments
    mexc,         \* what that operation raised, or NoError
    loads,        \* the load invocations made during that operation, in order
    attempted     \* whether load was invoked on the instance before that operation

pvars == <<info, call, ret, exc, recommended>>
mvars == <<meta, mcall, mexc, loads, attempted>>
vars == <<info, call, ret, exc, recommended, meta, mcall, mexc, loads, attempted>>

----------------------------------------------------------------------------
(* Bounds of the model.                                                    *)

\* paddings are drawn from windows of this half-width around 0 and around
\* the baseline ceiling 1024 * 5
PadSlack == 3
\* content sizes (filesize - padding) are drawn from 0..MaxSize
MaxSize == 410
\* the most negative filesize tried is -1 - MaxBadFilesize
MaxBadFilesize == 2
\* the longest positional argument list given to Metadata
MaxArgs == 2

----------------------------------------------------------------------------
(* Python values.                                                          *)

None == [type |-> "NoneType"]
PyInt(v) == [type |-> "int", value |-> v]

NoError == "none"
InvalidPadding == "ValueError: Invalid padding"
InvalidFilesize == "ValueError: Invalid filesize"
NotImplementedError == "NotImplementedError"

----------------------------------------------------------------------------
(* class PaddingInfo                                                       *)

\* the class attributes padding = 0 and size = -1, which an instance reads
\* until __init__ assigns its own
PaddingInfoClassAttrs == [type |-> "PaddingInfo", padding |-> 0, size |-> -1]

\* __init__ with "filesize > 0" for "filesize >= 0": an empty file is taken
\* for an invalid filesize
PaddingInfo__init__FilesizePositive(padding, filesize) ==
    LET s1 == [PaddingInfoClassAttrs EXCEPT !.padding = padding]
    IN  IF filesize > 0
        THEN LET s2 == [s1 EXCEPT !.size = filesize - padding]
             IN  IF s2.size < 0
                 THEN [self |-> s2, raised |-> InvalidPadding]
                 ELSE [self |-> s2, raised |-> NoError]
        ELSE IF filesize = -1
             THEN [self |-> [s1 EXCEPT !.size = -1], raised |-> NoError]
             ELSE [self |-> s1, raised |-> InvalidFilesize]

\* __init__ with "self.size < -1" for "self.size < 0": a padding one byte
\* larger than the file passes as a PaddingInfo of unknown size
PaddingInfo__init__SizeBelowMinusOne(padding, filesize) ==
    LET s1 == [PaddingInfoClassAttrs EXCEPT !.padding = padding]
    IN  IF filesize >= 0
        THEN LET s2 == [s1 EXCEPT !.size = filesize - padding]
             IN  IF s2.size < -1
                 THEN [self |-> s2, raised |-> InvalidPadding]
                 ELSE [self |-> s2, raised |-> NoError]
        ELSE IF filesize = -1
             THEN [self |-> [s1 EXCEPT !.size = -1], raised |-> NoError]
             ELSE [self |-> s1, raised |-> InvalidFilesize]

\* __init__ with "filesize < 0" for "filesize == -1": every negative
\* filesize is taken for the unknown size
PaddingInfo__init__AnyNegativeUnknown(padding, filesize) ==
    LET s1 == [PaddingInfoClassAttrs EXCEPT !.padding = padding]
    IN  IF filesize >= 0
        THEN LET s2 == [s1 EXCEPT !.size = filesize - padding]
             IN  IF s2.size < 0
                 THEN [self |-> s2, raised |-> InvalidPadding]
                 ELSE [self |-> s2, raised |-> NoError]
        ELSE IF filesize < 0
             THEN [self |-> [s1 EXCEPT !.size = -1], raised |-> NoError]
             ELSE [self |-> s1, raised |-> InvalidFilesize]

\* __init__ with the padding check made before the filesize is looked at:
\* with an unknown filesize, a padding of 0 or more is refused
PaddingInfo__init__PaddingCheckedFirst(padding, filesize) ==
    LET s1 == [PaddingInfoClassAttrs EXCEPT !.padding = padding]
        s2 == [s1 EXCEPT !.size = filesize - padding]
    IN  IF s2.size < 0 /\ filesize >= -1
        THEN [self |-> s2, raised |-> InvalidPadding]
        ELSE IF filesize >= 0
             THEN [self |-> s2, raised |-> NoError]
             ELSE IF filesize = -1
                  THEN [self |-> [s1 EXCEPT !.size = -1], raised |-> NoError]
                  ELSE [self |-> s1, raised |-> InvalidFilesize]

\* __init__ with "self.size = filesize": the padding is not taken off
PaddingInfo__init__SizeIsFilesize(padding, filesize) ==
    LET s1 == [PaddingInfoClassAttrs EXCEPT !.padding = padding]
    IN  IF filesize >= 0
        THEN LET s2 == [s1 EXCEPT !.size = filesize]
             IN  IF s2.size < 0
                 THEN [self |-> s2, raised |-> InvalidPadding]
                 ELSE [self |-> s2, raised |-> NoError]
        ELSE IF filesize = -1
             THEN [self |-> [s1 EXCEPT !.size = -1], raised |-> NoError]
             ELSE [self |-> s1, raised |-> InvalidFilesize]

\* PaddingInfo.__init__(self, padding, filesize): self as the method leaves
\* it, and what it raised
PaddingInfo__init__(padding, filesize) ==
    LET s1 == [PaddingInfoClassAttrs EXCEPT !.padding = padding]
    IN  IF filesize >= 0
        THEN LET s2 == [s1 EXCEPT !.size = filesize - padding]
             IN  IF s2.size < 0
                 THEN [self |-> s2, raised |-> InvalidPadding]
                 ELSE [self |-> s2, raised |-> NoError]
        ELSE IF filesize = -1
             THEN [self |-> [s1 EXCEPT !.size = -1], raised |-> NoError]
             ELSE [self |-> s1, raised |-> InvalidFilesize]

\* the expression PaddingInfo(padding, filesize): the new object, or None
\* with the exception when __init__ raised
NewPaddingInfo(padding, filesize) ==
    LET r == PaddingInfo__init__(padding, filesize)
    IN  IF r.raised = NoError
        THEN [obj |-> r.self, raised |-> NoError]
        ELSE [obj |-> None, raised |-> r.raised]

\* get_default_padding with "self.padding >= high" for "self.padding > high":
\* a padding that is exactly the ceiling is reduced
get_default_padding_CeilingReduced(self) ==
    LET high0 == 1024 * 5
        low0 == 1024
        high == IF self.size # -1 THEN high0 + (self.size \div 40) ELSE high0
        low == IF self.size # -1 THEN low0 + (self.size \div 200) ELSE low0
    IN  IF self.padding >= 0
        THEN IF self.padding >= high
             THEN low
             ELSE self.padding
        ELSE low

\* get_default_padding without the "self.padding >= 0" test: a deficit is
\* returned as it is
get_default_padding_DeficitKept(self) ==
    LET high0 == 1024 * 5
        low0 == 1024
        high == IF self.size # -1 THEN high0 + (self.size \div 40) ELSE high0
        low == IF self.size # -1 THEN low0 + (self.size \div 200) ELSE low0
    IN  IF self.padding > high
        THEN low
        ELSE self.padding

\* PaddingInfo.get_default_padding(self)
get_default_padding(self) ==
    LET high0 == 1024 * 5
        low0 == 1024
        high == IF self.size # -1 THEN high0 + (self.size \div 40) ELSE high0
        low == IF self.size # -1 THEN low0 + (self.size \div 200) ELSE low0
    IN  IF self.padding >= 0
        THEN IF self.padding > high
             THEN low
             ELSE self.padding
        ELSE low

\* the callbacks a caller passes as user_func: the one of the class
\* docstring, which returns info.get_default_padding(), callbacks that
\* return a fixed amount whatever the info (a negative one and a huge one
\* among them), and one that reads both fields of the info
UserFuncs ==
    {[kind |-> "my_callback"], [kind |-> "padding_plus_size"]}
        \cup {[kind |-> "fixed", amount |-> a] : a \in {-1, 0, 1000000}}

\* user_func(self)
CallUserFunc(user_func, self) ==
    CASE user_func.kind = "my_callback" -> get_default_padding(self)
      [] user_func.kind = "padding_plus_size" -> self.padding + self.size
      [] user_func.kind = "fixed" -> user_func.amount

\* _get_padding that validates what the callback returns: a negative amount
\* is raised to 0
_get_padding_Clamped(self, user_func) ==
    IF user_func = None
    THEN get_default_padding(self)
    ELSE LET v == CallUserFunc(user_func, self)
         IN  IF v < 0 THEN 0 ELSE v

\* PaddingInfo._get_padding(self, user_func)
_get_padding(self, user_func) ==
    IF user_func = None
    THEN get_default_padding(self)
    ELSE CallUserFunc(user_func, self)

----------------------------------------------------------------------------
(* class Metadata                                                          *)

\* Metadata.load(self, *args, **kwargs): what it raises
Metadata_load(self, args, kwargs) == NotImplementedError

\* save with an empty body: it returns None
Metadata_save_Pass(self, filename) == NoError

\* Metadata.save(self, filename=None): what it raises
Metadata_save(self, filename) == NotImplementedError

\* Metadata.delete(self, filename=None): what it raises
Metadata_delete(self, filename) == NotImplementedError

\* the classes instantiated: Metadata itself, and a concrete subclass that
\* overrides load, save and delete; what an overriding method does is the
\* subclass's business, so its outcome is an input
Classes == {"Metadata", "Subclass"}
Outcomes == {NoError, "IOError"}

\* self.load(*args, **kwargs), self.save(filename), self.delete(filename)
\* as Python dispatches them on the class of self
load(self, args, kwargs, outcome) ==
    IF self.cls = "Metadata" THEN Metadata_load(self, args, kwargs) ELSE outcome

save(self, filename, outcome) ==
    IF self.cls = "Metadata" THEN Metadata_save(self, filename) ELSE outcome

delete(self, filename, outcome) ==
    IF self.cls = "Metadata" THEN Metadata_delete(self, filename) ELSE outcome

\* __init__ with "if args:" for "if args or kwargs:": keyword arguments
\* alone do not load
Metadata__init__ArgsOnly(self, args, kwargs, outcome) ==
    IF args # <<>>
    THEN LET e == load(self, args, kwargs, outcome)
         IN  [loads |-> <<[args |-> args, kwargs |-> kwargs, raised |-> e]>>,
              raised |-> e]
    ELSE [loads |-> <<>>, raised |-> NoError]

\* Metadata.__init__(self, *args, **kwargs): the load invocations it makes,
\* and what it raises.  A tuple or a dict is true when it is not empty.
Metadata__init__(self, args, kwargs, outcome) ==
    IF args # <<>> \/ DOMAIN kwargs # {}
    THEN LET e == load(self, args, kwargs, outcome)
         IN  [loads |-> <<[args |-> args, kwargs |-> kwargs, raised |-> e]>>,
              raised |-> e]
    ELSE [loads |-> <<>>, raised |-> NoError]

----------------------------------------------------------------------------
(* Inputs.                                                                 *)

\* paddings: deficits and small paddings around 0, and paddings around the
\* ceiling, which is 1024 * 5 + size \div 40 for the sizes tried
Paddings ==
    ((0 - PadSlack) .. PadSlack)
        \cup ((1024 * 5 - PadSlack) .. (1024 * 5 + (MaxSize \div 40) + PadSlack))

\* filesizes tried with a padding: invalid ones below -1, the unknown -1,
\* small files, and files around padding (smaller, and up to MaxSize larger)
Filesizes(padding) ==
    ((0 - 1 - MaxBadFilesize) .. PadSlack)
        \cup ((padding - PadSlack) .. (padding + MaxSize))

\* what _get_padding is called with: no callback, or one of the callbacks
UserFuncArgs == {None} \cup UserFuncs

\* argument values, positional argument tuples and keyword argument dicts
ArgValues == {"a.mp3", "b.flac"}
KwNames == {"filename"}
ArgTuples == UNION {[1..n -> ArgValues] : n \in 0..MaxArgs}
KwDicts == UNION {[K -> ArgValues] : K \in SUBSET KwNames}
Filenames == {None} \cup {[type |-> "str", value |-> v] : v \in ArgValues}

----------------------------------------------------------------------------
(* The caller of PaddingInfo.                                              *)

\* d = PaddingInfo(padding, filesize), by a caller that holds nothing yet
Construct ==
    /\ call.op = "none"
    /\ \E padding \in Paddings : \E filesize \in Filesizes(padding) :
           LET r == NewPaddingInfo(padding, filesize)
           IN  /\ info' = r.obj
               /\ call' = [op |-> "__init__", padding |-> padding,
                                             filesize |-> filesize]
               /\ ret' = None
               /\ exc' = r.raised
               /\ recommended' = None
    /\ UNCHANGED mvars

\* d.get_default_padding()
GetDefaultPadding ==
    /\ info # None
    /\ call' = [op |-> "get_default_padding"]
    /\ ret' = PyInt(get_default_padding(info))
    /\ exc' = NoError
    /\ UNCHANGED <<info, recommended>>
    /\ UNCHANGED mvars

\* d._get_padding(user_func)
GetPadding ==
    /\ info # None
    /\ \E user_func \in UserFuncArgs :
           /\ call' = [op |-> "_get_padding", user_func |-> user_func]
           /\ ret' = PyInt(_get_padding(info, user_func))
    /\ exc' = NoError
    /\ UNCHANGED <<info, recommended>>
    /\ UNCHANGED mvars

\* the next save of the same content, laid out with the padding that
\* get_default_padding just returned: padding is then that amount, and the
\* file is the content plus that padding (or still of unknown size)
Resave ==
    /\ info # None
    /\ call.op = "get_default_padding"
    /\ LET r == ret.value
           s == info.size
           filesize == IF s = -1 THEN -1 ELSE s + r
           n == NewPaddingInfo(r, filesize)
       IN  /\ info' = n.obj
           /\ call' = [op |-> "__init__", padding |-> r, filesize |-> filesize]
           /\ ret' = None
           /\ exc' = n.raised
           /\ recommended' = [padding |-> r, size |-> s]
    /\ UNCHANGED mvars

\* the caller drops what it holds (the object is discarded after the save,
\* the exception has been handled)
Discard ==
    /\ call.op # "none"
    /\ info' = None
    /\ call' = [op |-> "none"]
    /\ ret' = None
    /\ exc' = NoError
    /\ recommended' = None
    /\ UNCHANGED mvars

----------------------------------------------------------------------------
(* The caller of Metadata.                                                 *)

\* m = cls(*args, **kwargs), by a caller that holds nothing yet
MetaConstruct ==
    /\ mcall.op = "none"
    /\ \E cls \in Classes, args \in ArgTuples, kwargs \in KwDicts,
          outcome \in Outcomes :
           LET self == [type |-> "Metadata", cls |-> cls]
               r == Metadata__init__(self, args, kwargs, outcome)
           IN  /\ meta' = IF r.raised = NoError THEN self ELSE None
               /\ mcall' = [op |-> "__init__", cls |-> cls, args |-> args,
                                            kwargs |-> kwargs]
               /\ mexc' = r.raised
               /\ loads' = r.loads
               /\ attempted' = FALSE
    /\ UNCHANGED pvars

\* m.load(*args, **kwargs)
MetaLoad ==
    /\ meta # None
    /\ \E args \in ArgTuples, kwargs \in KwDicts, outcome \in Outcomes :
           LET e == load(meta, args, kwargs, outcome)
           IN  /\ mcall' = [op |-> "load", cls |-> meta.cls, args |-> args,
                                        kwargs |-> kwargs]
               /\ mexc' = e
               /\ loads' = <<[args |-> args, kwargs |-> kwargs, raised |-> e]>>
    /\ attempted' = (attempted \/ loads # <<>>)
    /\ UNCHANGED meta
    /\ UNCHANGED pvars

\* m.save(filename)
MetaSave ==
    /\ meta # None
    /\ \E filename \in Filenames, outcome \in Outcomes :
           /\ mcall' = [op |-> "save", cls |-> meta.cls, filename |-> filename]
           /\ mexc' = save(meta, filename, outcome)
    /\ loads' = <<>>
    /\ attempted' = (attempted \/ loads # <<>>)
    /\ UNCHANGED meta
    /\ UNCHANGED pvars

\* m.delete(filename)
MetaDelete ==
    /\ meta # None
    /\ \E filename \in Filenames, outcome \in Outcomes :
           /\ mcall' = [op |-> "delete", cls |-> meta.cls, filename |-> filename]
           /\ mexc' = delete(meta, filename, outcome)
    /\ loads' = <<>>
    /\ attempted' = (attempted \/ loads # <<>>)
    /\ UNCHANGED meta
    /\ UNCHANGED pvars

\* the caller drops what it holds
MetaDiscard ==
    /\ mcall.op # "none"
    /\ meta' = None
    /\ mcall' = [op |-> "none"]
    /\ mexc' = NoError
    /\ loads' = <<>>
    /\ attempted' = FALSE
    /\ UNCHANGED pvars

----------------------------------------------------------------------------
(* The specifications.                                                     *)

Init ==
    /\ info = None
    /\ call = [op |-> "none"]
    /\ ret = None
    /\ exc = NoError
    /\ recommended = None
    /\ meta = None
    /\ mcall = [op |-> "none"]
    /\ mexc = NoError
    /\ loads = <<>>
    /\ attempted = FALSE

Next ==
    \/ Construct
    \/ GetDefaultPadding
    \/ GetPadding
    \/ Resave
    \/ Discard

Spec == Init /\ [][Next]_vars

MetaNext ==
    \/ MetaConstruct
    \/ MetaLoad
    \/ MetaSave
    \/ MetaDelete
    \/ MetaDiscard

MetaSpec == Init /\ [][MetaNext]_vars

----------------------------------------------------------------------------
(* Properties of PaddingInfo, checked under Spec.                          *)

\* whether the last operation was a construction, d = PaddingInfo(...)
Constructed == call.op = "__init__"

\* C1: PaddingInfo(padding, filesize) with filesize >= 0 and
\* filesize - padding >= 0 succeeds, for a negative padding too, and the
\* object has the given padding and size = filesize - padding.
C1_ValidConstruction ==
    (Constructed /\ call.filesize >= 0 /\ call.filesize - call.padding >= 0)
        => /\ exc = NoError
           /\ info # None
           /\ info.padding = call.padding
           /\ info.size = call.filesize - call.padding

\* a negative padding on an empty file: the size is the deficit
C1_Witness ==
    /\ Constructed
    /\ call.padding < 0
    /\ call.filesize = 0
    /\ exc = NoError
    /\ info # None
    /\ info.size = 0 - call.padding

\* C2: PaddingInfo(padding, filesize) with filesize >= 0 and
\* filesize - padding < 0 raises ValueError("Invalid padding") and gives no
\* object.
C2_InvalidPadding ==
    (Constructed /\ call.filesize >= 0 /\ call.filesize - call.padding < 0)
        => /\ exc = InvalidPadding
           /\ info = None

\* a padding one byte larger than the file is refused
C2_Witness ==
    /\ Constructed
    /\ call.filesize > 0
    /\ call.padding = call.filesize + 1
    /\ exc = InvalidPadding
    /\ info = None

\* C3: PaddingInfo(padding, filesize) with filesize < -1 raises
\* ValueError("Invalid filesize") whatever the padding, never "Invalid
\* padding", and gives no object.
C3_InvalidFilesize ==
    (Constructed /\ call.filesize < -1)
        => /\ exc = InvalidFilesize
           /\ exc # InvalidPadding
           /\ info = None

\* a filesize below -1 with a padding that is larger than it, and positive
C3_Witness ==
    /\ Constructed
    /\ call.filesize < -1
    /\ call.padding > 0
    /\ exc = InvalidFilesize
    /\ info = None

\* C4: PaddingInfo(padding, -1) succeeds for every padding, with size = -1
\* and the given padding.
C4_UnknownSize ==
    (Constructed /\ call.filesize = -1)
        => /\ exc = NoError
           /\ info # None
           /\ info.size = -1
           /\ info.padding = call.padding

\* an unknown filesize with a padding larger than the baseline ceiling
C4_Witness ==
    /\ Constructed
    /\ call.filesize = -1
    /\ call.padding > 1024 * 5
    /\ exc = NoError
    /\ info # None
    /\ info.size = -1

\* integer division that truncates toward zero
TruncDiv(a, b) == IF a >= 0 THEN a \div b ELSE 0 - ((0 - a) \div b)

\* the ceiling and the floor of the heuristic as specified
SpecifiedHigh(d) == IF d.size = -1 THEN 5120 ELSE 5120 + TruncDiv(d.size, 40)
SpecifiedLow(d) == IF d.size = -1 THEN 1024 ELSE 1024 + TruncDiv(d.size, 200)

\* C5: get_default_padding() is the specified heuristic: low when
\* padding < 0 or padding > high, and padding unchanged when
\* 0 <= padding <= high, with high = 5120 (+ size div 40) and
\* low = 1024 (+ size div 200), the division truncating.
C5_DefaultHeuristic ==
    (call.op = "get_default_padding")
        => /\ info # None
           /\ (info.padding < 0 \/ info.padding > SpecifiedHigh(info))
                  => ret = PyInt(SpecifiedLow(info))
           /\ (0 <= info.padding /\ info.padding <= SpecifiedHigh(info))
                  => ret = PyInt(info.padding)

\* a padding that is exactly the ceiling of a file of known size is kept
C5_Witness ==
    /\ call.op = "get_default_padding"
    /\ info.size >= 40
    /\ info.padding = SpecifiedHigh(info)
    /\ ret = PyInt(info.padding)

\* C6: _get_padding(None) returns get_default_padding(), and
\* _get_padding(f) returns f(d) as it is, negative or huge, whatever
\* get_default_padding() would have returned.
C6_CallbackVerbatim ==
    (call.op = "_get_padding")
        => /\ info # None
           /\ call.user_func = None
                  => ret = PyInt(get_default_padding(info))
           /\ call.user_func # None
                  => ret = PyInt(CallUserFunc(call.user_func, info))

\* a callback's negative amount is returned where the default is another
C6_Witness ==
    /\ call.op = "_get_padding"
    /\ call.user_func = [kind |-> "fixed", amount |-> -1]
    /\ ret = PyInt(-1)
    /\ get_default_padding(info) > 1024

\* C9: the default r satisfies 0 <= r <= high, and r >= 1024 whenever r is
\* not the stored padding.
C9_DefaultInRange ==
    (call.op = "get_default_padding")
        => /\ info # None
           /\ info.size = -1 \/ info.size >= 0
           /\ 0 <= ret.value
           /\ ret.value <= SpecifiedHigh(info)
           /\ ret.value # info.padding => ret.value >= 1024

\* a deficit is answered by the floor of a file of known size
C9_Witness ==
    /\ call.op = "get_default_padding"
    /\ info.padding < 0
    /\ info.size >= 200
    /\ ret.value > 1024
    /\ ret.value <= SpecifiedHigh(info)

\* C10: a save laid out with the default r of content size s constructs
\* without error, with padding r and size s again, and its default is r.
C10_DefaultStable ==
    /\ (recommended # None /\ Constructed)
           => /\ exc = NoError
              /\ info # None
              /\ info.padding = recommended.padding
              /\ info.size = recommended.size
    /\ (recommended # None /\ call.op = "get_default_padding")
           => ret = PyInt(recommended.padding)

\* a padding reduced to the floor 1025 is recommended again
C10_Witness ==
    /\ recommended # None
    /\ call.op = "get_default_padding"
    /\ recommended.size >= 200
    /\ recommended.padding = 1025
    /\ info.padding = 1025
    /\ ret = PyInt(1025)

----------------------------------------------------------------------------
(* Properties of Metadata, checked under MetaSpec.                         *)

\* C7: on Metadata itself, load, save and delete raise NotImplementedError,
\* with any arguments and whether or not a load was attempted before.
C7_AbstractOperations ==
    /\ (mcall.op \in {"load", "save", "delete"} /\ mcall.cls = "Metadata")
           => mexc = NotImplementedError
    /\ (mcall.op # "none" /\ mcall.cls = "Metadata")
           => \A i \in DOMAIN loads : loads[i].raised = NotImplementedError

\* save(None) fails on Metadata after a load was attempted
C7_Witness ==
    /\ mcall.op = "save"
    /\ mcall.cls = "Metadata"
    /\ mcall.filename = None
    /\ attempted
    /\ mexc = NotImplementedError

\* the number of arguments a construction was given
NumArguments == Len(mcall.args) + Cardinality(DOMAIN mcall.kwargs)

\* C8: construction with an argument invokes load once, with those
\* arguments, and what load raises leaves construction (on Metadata,
\* NotImplementedError); construction with no argument invokes no load and
\* succeeds.
C8_ConstructAndLoad ==
    (mcall.op = "__init__")
        => IF NumArguments >= 1
           THEN /\ Len(loads) = 1
                /\ loads[1].args = mcall.args
                /\ loads[1].kwargs = mcall.kwargs
                /\ mexc = loads[1].raised
                /\ mcall.cls = "Metadata" => mexc = NotImplementedError
                /\ (meta = None) <=> (mexc # NoError)
           ELSE /\ loads = <<>>
                /\ mexc = NoError
                /\ meta # None

\* a subclass constructed with a keyword argument alone has loaded
C8_Witness ==
    /\ mcall.op = "__init__"
    /\ mcall.cls = "Subclass"
    /\ mcall.args = <<>>
    /\ DOMAIN mcall.kwargs = {"filename"}
    /\ Len(loads) = 1
    /\ mexc = NoError
    /\ meta # None

====
